---- MODULE Spec2Model ----
(***************************************************************************)
(* Model of the Cineville visits-per-member report generator               *)
(* (backend/logic.py, backend/processor.py, backend/app.py).               *)
(*                                                                         *)
(* Strings are sequences of one-character strings; Ord gives the code      *)
(* point Python compares by.  None is Python's None.  A CSV row is the     *)
(* dict csv.DictReader yields: a record of raw field values, each a string *)
(* or None (a short row).                                                  *)
(***************************************************************************)
EXTENDS Naturals, Integers, Sequences, FiniteSets, TLC

VARIABLES
    pc,             \* position of the run being modelled
    memberRows,     \* rows csv.DictReader yields for members.csv (loader specifications)
    visitRows,      \* rows csv.DictReader yields for visits.csv (loader specifications)
    members,        \* barcode_to_member: barcode -> member_id
    visits,         \* list[Visit]
    grouped,        \* dict (member_id, barcode) -> [visit_id], in insertion order
    walk_in_count,  \* walk-in counter of validate_and_group_visits
    idx,            \* number of visits the loop of validate_and_group_visits has consumed
    top_n,          \* the top_n build_summary was called with
    outputFile,     \* output.csv: the strings f.write was called with, in order
    summary,        \* the dict build_summary returned
    summaryFile,    \* summary.json: the object json.dump wrote
    proc,           \* server: position of each processor.py subprocess
    fsOutput,       \* server: output.csv on disk, by the run that last opened it
    fsSummary,      \* server: summary.json on disk, by the run that last opened it
    reader          \* server: position of the GET /api/result handler

vars == <<pc, memberRows, visitRows, members, visits, grouped, walk_in_count, idx, top_n,
          outputFile, summary, summaryFile, proc, fsOutput, fsSummary, reader>>

dataVars == <<members, visits, grouped, walk_in_count, idx, top_n, outputFile, summary,
             summaryFile>>
serverVars == <<proc, fsOutput, fsSummary, reader>>

----------------------------------------------------------------------------
(* Bounds *)

MaxMemberRows == 3
MaxVisitRows == 3
MaxTopN == 2
MaxRuns == 2

----------------------------------------------------------------------------
(* Strings *)

None == <<"None">>

Whitespace == {" ", "\n"}

Ord(c) ==
    CASE c = "\n" -> 10
      [] c = " " -> 32
      [] c = "," -> 44
      [] c = "[" -> 91
      [] c = "]" -> 93
      [] OTHER -> 97 + (CHOOSE k \in 0..25 :
                          c = <<"a","b","c","d","e","f","g","h","i","j","k","l","m",
                                "n","o","p","q","r","s","t","u","v","w","x","y","z">>[k + 1])

\* Python's str < str: lexicographic by code point, a proper prefix is smaller.
RECURSIVE StrLess(_, _)
StrLess(s, t) ==
    IF t = <<>> THEN FALSE
    ELSE IF s = <<>> THEN TRUE
    ELSE IF Ord(s[1]) # Ord(t[1]) THEN Ord(s[1]) < Ord(t[1])
    ELSE StrLess(Tail(s), Tail(t))

RECURSIVE LStrip(_)
LStrip(s) == IF s # <<>> /\ s[1] \in Whitespace THEN LStrip(Tail(s)) ELSE s

RECURSIVE RStrip(_)
RStrip(s) ==
    IF s # <<>> /\ s[Len(s)] \in Whitespace THEN RStrip(SubSeq(s, 1, Len(s) - 1)) ELSE s

\* str.strip()
Strip(s) == RStrip(LStrip(s))

\* (x or ""): None and "" both give ""
OrEmpty(x) == IF x = None \/ x = <<>> THEN <<>> ELSE x

\* (x or None)
OrNone(x) == IF x = <<>> THEN None ELSE x

\* Python's truth value of an Optional[str]
Truthy(x) == x # None /\ x # <<>>

RECURSIVE Concat(_)
Concat(ss) == IF ss = <<>> THEN <<>> ELSE ss[1] \o Concat(Tail(ss))

SeqsUpTo(S, n) == UNION {[1..k -> S] : k \in 0..n}

----------------------------------------------------------------------------
(* Inputs: the rows the CSV readers may yield *)

MemberRow(m, b) == [member_id |-> m, barcode |-> b]

MemberRowSet ==
    { MemberRow(<<"a">>, <<"x">>),
      MemberRow(<<" ", "a", " ">>, <<"x", " ">>),
      MemberRow(<<"a">>, <<"y">>),
      MemberRow(<<"b">>, <<"y">>),
      MemberRow(<<"a", ",", "b">>, <<"y">>),
      MemberRow(<<>>, <<"x">>),
      MemberRow(<<"a">>, <<" ">>),
      MemberRow(None, <<"y">>) }

VisitRow(v, b, r) == [visit_id |-> v, barcode |-> b, reservation_id |-> r]

VisitRowSet ==
    { VisitRow(<<"v">>, <<"x">>, None),
      VisitRow(<<" ", "v">>, <<"x", " ">>, <<" ">>),
      VisitRow(<<"w">>, <<"x">>, <<" ", "r">>),
      VisitRow(<<"w">>, <<"y">>, <<>>),
      VisitRow(<<"v">>, <<"y">>, <<"r">>),
      VisitRow(<<"v">>, <<" ">>, <<>>),
      VisitRow(<<"w">>, <<"q">>, None),
      VisitRow(<<"v", ",", " ", "w">>, <<"x">>, <<"r">>),
      VisitRow(<<"v", "\n", "w">>, <<"y">>, <<>>),
      VisitRow(<<"v", ",", "w">>, <<"x">>, <<>>),
      VisitRow(<<>>, <<"x">>, <<"r">>),
      VisitRow(<<" ">>, <<"y">>, <<>>),
      VisitRow(None, <<"x">>, <<"r">>) }

MemberFiles == SeqsUpTo(MemberRowSet, MaxMemberRows)
VisitFiles == SeqsUpTo(VisitRowSet, MaxVisitRows)

----------------------------------------------------------------------------
(* load_members *)

\* Faulty variant of MemberStep: a later row with the same barcode replaces the mapping.
MemberStepLastWins(map, row) ==
    LET member_id == Strip(OrEmpty(row.member_id))
        barcode == Strip(OrEmpty(row.barcode))
    IN  IF member_id = <<>> \/ barcode = <<>> THEN map
        ELSE [b \in DOMAIN map \cup {barcode} |-> IF b = barcode THEN member_id ELSE map[b]]

\* One iteration of the loop over the reader.
MemberStep(map, row) ==
    LET member_id == Strip(OrEmpty(row.member_id))
        barcode == Strip(OrEmpty(row.barcode))
    IN  IF member_id = <<>> \/ barcode = <<>> THEN map
        ELSE IF barcode \in DOMAIN map THEN map
        ELSE [b \in DOMAIN map \cup {barcode} |-> IF b = barcode THEN member_id ELSE map[b]]

RECURSIVE LoadMembersFrom(_, _)
LoadMembersFrom(map, rows) ==
    IF rows = <<>> THEN map ELSE LoadMembersFrom(MemberStep(map, rows[1]), Tail(rows))

load_members(rows) == LoadMembersFrom(<<>>, rows)

----------------------------------------------------------------------------
(* load_visits *)

Visit(v, b, r) == [visit_id |-> v, barcode |-> b, reservation_id |-> r]

\* Faulty variant of VisitStep: the visit_id is tested before it is trimmed.
VisitStepUntrimmedTest(list, row) ==
    LET visit_id == Strip(OrEmpty(row.visit_id))
        barcode == Strip(OrEmpty(row.barcode))
        reservation_id == OrNone(Strip(OrEmpty(row.reservation_id)))
    IN  IF OrEmpty(row.visit_id) = <<>> THEN list
        ELSE Append(list, Visit(visit_id, barcode, reservation_id))

\* One iteration of the loop over the reader.
VisitStep(list, row) ==
    LET visit_id == Strip(OrEmpty(row.visit_id))
        barcode == Strip(OrEmpty(row.barcode))
        reservation_id == OrNone(Strip(OrEmpty(row.reservation_id)))
    IN  IF visit_id = <<>> THEN list
        ELSE Append(list, Visit(visit_id, barcode, reservation_id))

RECURSIVE LoadVisitsFrom(_, _)
LoadVisitsFrom(list, rows) ==
    IF rows = <<>> THEN list ELSE LoadVisitsFrom(VisitStep(list, rows[1]), Tail(rows))

load_visits(rows) == LoadVisitsFrom(<<>>, rows)

----------------------------------------------------------------------------
(* validate_and_group_visits *)

Entry(k, ids) == [key |-> k, ids |-> ids]

DictKeys(d) == {d[i].key : i \in 1..Len(d)}

DictGet(d, k) == d[CHOOSE i \in 1..Len(d) : d[i].key = k].ids

\* grouped[key].append(visit_id) on a defaultdict(list): a new key is inserted last.
DictAppend(d, k, visit_id) ==
    IF k \in DictKeys(d)
    THEN [i \in 1..Len(d) |-> IF d[i].key = k THEN Entry(k, Append(d[i].ids, visit_id)) ELSE d[i]]
    ELSE Append(d, Entry(k, <<visit_id>>))

\* members.get(barcode)
MembersGet(map, barcode) == IF barcode \in DOMAIN map THEN map[barcode] ELSE None

GroupState(g, w) == [grouped |-> g, walk_in_count |-> w]

\* Faulty variant of GroupStep: a visit_id already in the group is not appended again.
GroupStepDedup(map, st, v) ==
    LET member_id == MembersGet(map, v.barcode)
        k == <<member_id, v.barcode>>
    IN  IF ~Truthy(v.barcode) THEN st
        ELSE IF ~Truthy(member_id) THEN st
        ELSE IF k \in DictKeys(st.grouped)
                /\ \E j \in 1..Len(DictGet(st.grouped, k)) : DictGet(st.grouped, k)[j] = v.visit_id
        THEN st
        ELSE GroupState(DictAppend(st.grouped, k, v.visit_id),
                        st.walk_in_count + (IF v.reservation_id = None THEN 1 ELSE 0))

\* Faulty variant of GroupStep: the walk-in test runs before the barcode checks.
GroupStepCountsFirst(map, st, v) ==
    LET member_id == MembersGet(map, v.barcode)
        w == st.walk_in_count + (IF v.reservation_id = None THEN 1 ELSE 0)
    IN  IF ~Truthy(v.barcode) THEN GroupState(st.grouped, w)
        ELSE IF ~Truthy(member_id) THEN GroupState(st.grouped, w)
        ELSE GroupState(DictAppend(st.grouped, <<member_id, v.barcode>>, v.visit_id), w)

\* The body of "for v in visits".
GroupStep(map, st, v) ==
    LET member_id == MembersGet(map, v.barcode)
    IN  IF ~Truthy(v.barcode) THEN st
        ELSE IF ~Truthy(member_id) THEN st
        ELSE GroupState(DictAppend(st.grouped, <<member_id, v.barcode>>, v.visit_id),
                        st.walk_in_count + (IF v.reservation_id = None THEN 1 ELSE 0))

----------------------------------------------------------------------------
(* write_output *)

\* Python's tuple < tuple on (member_id, barcode)
KeyLess(k1, k2) ==
    \/ StrLess(k1[1], k2[1])
    \/ k1[1] = k2[1] /\ StrLess(k1[2], k2[2])

\* sorted(): a stable sort; x goes before the first element that is greater than it.
RECURSIVE InsertKey(_, _)
InsertKey(x, s) ==
    IF s = <<>> THEN <<x>>
    ELSE IF KeyLess(x, s[1]) THEN <<x>> \o s
    ELSE <<s[1]>> \o InsertKey(x, Tail(s))

RECURSIVE SortKeys(_, _)
SortKeys(done, rest) ==
    IF rest = <<>> THEN done ELSE SortKeys(InsertKey(rest[1], done), Tail(rest))

\* Faulty variant of SortedKeys: the keys are written in the dict's insertion order.
UnsortedKeys(d) == [i \in 1..Len(d) |-> d[i].key]

\* sorted(grouped_data)
SortedKeys(d) == SortKeys(<<>>, [i \in 1..Len(d) |-> d[i].key])

RECURSIVE Join(_, _)
Join(sep, ss) ==
    IF ss = <<>> THEN <<>>
    ELSE IF Len(ss) = 1 THEN ss[1]
    ELSE ss[1] \o sep \o Join(sep, Tail(ss))

\* Faulty variant of VisitsRepr: the list is joined with "," alone.
VisitsReprNoSpace(visit_ids) == <<"[">> \o Join(<<",">>, visit_ids) \o <<"]">>

\* "[" + ", ".join(visit_ids) + "]"
VisitsRepr(visit_ids) == <<"[">> \o Join(<<",", " ">>, visit_ids) \o <<"]">>

HeaderLine ==
    <<"m","e","m","b","e","r","_","i","d",",","b","a","r","c","o","d","e",",",
      "v","i","s","i","t","s","\n">>

\* f"{member_id},{barcode},{visits_repr}\n"
RowLine(member_id, barcode, visits_repr) ==
    member_id \o <<",">> \o barcode \o <<",">> \o visits_repr \o <<"\n">>

\* The strings write_output writes to the truncated file, in order.
write_output(d) ==
    LET keys == SortedKeys(d)
    IN  <<HeaderLine>> \o
        [i \in 1..Len(keys) |-> RowLine(keys[i][1], keys[i][2], VisitsRepr(DictGet(d, keys[i])))]

----------------------------------------------------------------------------
(* build_summary *)

Item(m, c) == [member_id |-> m, visit_count |-> c]

\* visits_per_member[member_id] += count on a defaultdict(int)
CountAdd(vpm, m, c) ==
    IF \E i \in 1..Len(vpm) : vpm[i].member_id = m
    THEN [i \in 1..Len(vpm) |->
            IF vpm[i].member_id = m THEN Item(m, vpm[i].visit_count + c) ELSE vpm[i]]
    ELSE Append(vpm, Item(m, c))

RECURSIVE VisitsPerMember(_, _)
VisitsPerMember(vpm, d) ==
    IF d = <<>> THEN vpm
    ELSE VisitsPerMember(CountAdd(vpm, d[1].key[1], Len(d[1].ids)), Tail(d))

RECURSIVE TotalValid(_)
TotalValid(d) == IF d = <<>> THEN 0 ELSE Len(d[1].ids) + TotalValid(Tail(d))

\* Faulty variant of RankLess: the key is the count alone, ties stay in insertion order.
RankLessCountOnly(x, y) == x.visit_count > y.visit_count

\* key=lambda item: (-item[1], item[0])
RankLess(x, y) ==
    \/ x.visit_count > y.visit_count
    \/ x.visit_count = y.visit_count /\ StrLess(x.member_id, y.member_id)

RECURSIVE InsertItem(_, _)
InsertItem(x, s) ==
    IF s = <<>> THEN <<x>>
    ELSE IF RankLess(x, s[1]) THEN <<x>> \o s
    ELSE <<s[1]>> \o InsertItem(x, Tail(s))

RECURSIVE SortItems(_, _)
SortItems(done, rest) ==
    IF rest = <<>> THEN done ELSE SortItems(InsertItem(rest[1], done), Tail(rest))

\* s[:n] for n >= 0
Take(s, n) == SubSeq(s, 1, IF n < Len(s) THEN n ELSE Len(s))

\* Faulty variant of build_summary: total_valid_visits counts the groups, not their visits.
build_summary_counts_groups(d, walk, n) ==
    [total_valid_visits |-> Len(d),
     total_walk_ins |-> walk,
     top_members |-> Take(SortItems(<<>>, VisitsPerMember(<<>>, d)), n)]

\* The returned dict, without generated_at (the wall clock).
build_summary(d, walk, n) ==
    [total_valid_visits |-> TotalValid(d),
     total_walk_ins |-> walk,
     top_members |-> Take(SortItems(<<>>, VisitsPerMember(<<>>, d)), n)]

----------------------------------------------------------------------------
(* Initial values *)

DefaultTopN == 5

TopNs == 0..MaxTopN \cup {DefaultTopN}

Runs == 1..MaxRuns

NoSummary == [total_valid_visits |-> 0, total_walk_ins |-> 0, top_members |-> <<>>]

NoFile == [writer |-> 0, state |-> "absent"]

\* The GET /api/result handler: where it is, and whether its read overlapped a write.
Idle == [at |-> "idle", during_write |-> FALSE]
Reading == [at |-> "reading", during_write |-> FALSE]
Responded(code, torn) == [at |-> code, during_write |-> torn]

DataInit ==
    /\ members = <<>>
    /\ visits = <<>>
    /\ grouped = <<>>
    /\ walk_in_count = 0
    /\ idx = 0
    /\ top_n = DefaultTopN
    /\ outputFile = <<>>
    /\ summary = NoSummary
    /\ summaryFile = NoSummary

ServerInit ==
    /\ proc = [r \in Runs |-> "idle"]
    /\ fsOutput = NoFile
    /\ fsSummary = NoFile
    /\ reader = Idle

----------------------------------------------------------------------------
(* processor.main: one run of the pipeline.  The rows of each source are    *)
(* what its reader yields when the run opens it.                            *)

Init ==
    /\ pc = "load_members"
    /\ memberRows = <<>>
    /\ visitRows = <<>>
    /\ DataInit
    /\ ServerInit

LoadMembers ==
    /\ pc = "load_members"
    /\ \E rows \in MemberFiles : members' = load_members(rows)
    /\ pc' = "load_visits"
    /\ UNCHANGED <<memberRows, visitRows, visits, grouped, walk_in_count, idx,
                   top_n, outputFile, summary, summaryFile, serverVars>>

LoadVisits ==
    /\ pc = "load_visits"
    /\ \E rows \in VisitFiles : visits' = load_visits(rows)
    /\ pc' = "validate"
    /\ grouped' = <<>>
    /\ walk_in_count' = 0
    /\ idx' = 0
    /\ UNCHANGED <<memberRows, visitRows, members, top_n, outputFile, summary,
                   summaryFile, serverVars>>

\* One iteration of "for v in visits" in validate_and_group_visits.
GroupNext ==
    /\ pc = "validate"
    /\ idx < Len(visits)
    /\ LET st == GroupStep(members, GroupState(grouped, walk_in_count), visits[idx + 1])
       IN  /\ grouped' = st.grouped
           /\ walk_in_count' = st.walk_in_count
    /\ idx' = idx + 1
    /\ UNCHANGED <<pc, memberRows, visitRows, members, visits, top_n, outputFile,
                   summary, summaryFile, serverVars>>

\* return dict(grouped), walk_in_count
GroupReturn ==
    /\ pc = "validate"
    /\ idx = Len(visits)
    /\ pc' = "write_output"
    /\ UNCHANGED <<memberRows, visitRows, dataVars, serverVars>>

WriteOutput ==
    /\ pc = "write_output"
    /\ outputFile' = write_output(grouped)
    /\ pc' = "build_summary"
    /\ UNCHANGED <<memberRows, visitRows, members, visits, grouped, walk_in_count, idx,
                   top_n, summary, summaryFile, serverVars>>

\* main passes top_n = 5; build_summary takes any top_n.  The prints that follow
\* write_summary in main change nothing modelled here.
BuildSummary ==
    /\ pc = "build_summary"
    /\ \E n \in TopNs :
          /\ summary' = build_summary(grouped, walk_in_count, n)
          /\ top_n' = n
    /\ pc' = "write_summary"
    /\ UNCHANGED <<memberRows, visitRows, members, visits, grouped, walk_in_count, idx,
                   outputFile, summaryFile, serverVars>>

WriteSummary ==
    /\ pc = "write_summary"
    /\ summaryFile' = summary
    /\ pc' = "done"
    /\ UNCHANGED <<memberRows, visitRows, members, visits, grouped, walk_in_count, idx,
                   top_n, outputFile, summary, serverVars>>

Next ==
    \/ LoadMembers
    \/ LoadVisits
    \/ GroupNext
    \/ GroupReturn
    \/ WriteOutput
    \/ BuildSummary
    \/ WriteSummary

Spec == Init /\ [][Next]_vars

----------------------------------------------------------------------------
(* load_members and load_visits applied to a given source *)

InitMembers ==
    /\ pc = "load_members"
    /\ memberRows \in MemberFiles
    /\ visitRows = <<>>
    /\ DataInit
    /\ ServerInit

\* The source is loaded, and then loaded once more.
LoadMembersFile ==
    /\ pc \in {"load_members", "members_loaded"}
    /\ members' = load_members(memberRows)
    /\ pc' = IF pc = "load_members" THEN "members_loaded" ELSE "members_reloaded"
    /\ UNCHANGED <<memberRows, visitRows, visits, grouped, walk_in_count, idx,
                   top_n, outputFile, summary, summaryFile, serverVars>>

SpecMembers == InitMembers /\ [][LoadMembersFile]_vars

InitVisits ==
    /\ pc = "load_visits"
    /\ memberRows = <<>>
    /\ visitRows \in VisitFiles
    /\ DataInit
    /\ ServerInit

LoadVisitsFile ==
    /\ pc = "load_visits"
    /\ visits' = load_visits(visitRows)
    /\ pc' = "visits_loaded"
    /\ UNCHANGED <<memberRows, visitRows, members, grouped, walk_in_count, idx,
                   top_n, outputFile, summary, summaryFile, serverVars>>

SpecVisits == InitVisits /\ [][LoadVisitsFile]_vars

----------------------------------------------------------------------------
(* app.py: POST /api/run starts processor.py as a subprocess and waits for
   it; GET /api/result reads summary.json.  The handlers are plain "def"
   endpoints, which the server runs on worker threads, so requests overlap.
   A file on disk is described by the run that last opened it for writing
   and by what it holds: nothing yet written in full ("partial"), one run's
   whole text ("complete"), or bytes of more than one run ("mixed").  Each
   step that touches a file may fail (a run-level defect): the exception
   ends the subprocess with a non-zero exit status. *)

File(r, st) == [writer |-> r, state |-> st]

\* path.open("w"): the file is created or truncated.
Opened(f, r) == File(r, "partial")

\* The with-block ends: all of r's text is written and the file is closed.
Closed(f, r) ==
    IF f.writer = r /\ f.state = "partial" THEN File(r, "complete") ELSE File(f.writer, "mixed")

Fail(r) ==
    /\ proc' = [proc EXCEPT ![r] = "failed"]
    /\ UNCHANGED <<fsOutput, fsSummary>>

Goto(r, where) == proc' = [proc EXCEPT ![r] = where]

\* The server steps leave the modelled pipeline run's own state alone.
DataIdle == UNCHANGED <<pc, memberRows, visitRows, dataVars>>

\* run_processor: subprocess.run([sys.executable, PROCESSOR_PATH], ...)
StartRun(r) ==
    /\ proc[r] = "idle"
    /\ Goto(r, "load_members")
    /\ UNCHANGED <<fsOutput, fsSummary, reader>>
    /\ DataIdle

\* main: members = load_members(args.members)
RunLoadMembers(r) ==
    /\ proc[r] = "load_members"
    /\ \/ Goto(r, "load_visits") /\ UNCHANGED <<fsOutput, fsSummary>>
       \/ Fail(r)
    /\ UNCHANGED reader
    /\ DataIdle

\* main: visits = load_visits(args.visits); validate_and_group_visits(...)
RunLoadVisits(r) ==
    /\ proc[r] = "load_visits"
    /\ \/ Goto(r, "open_output") /\ UNCHANGED <<fsOutput, fsSummary>>
       \/ Fail(r)
    /\ UNCHANGED reader
    /\ DataIdle

\* write_output: mkdir and path.open("w")
RunOpenOutput(r) ==
    /\ proc[r] = "open_output"
    /\ \/ /\ Goto(r, "write_output")
          /\ fsOutput' = Opened(fsOutput, r)
          /\ UNCHANGED fsSummary
       \/ Fail(r)
    /\ UNCHANGED reader
    /\ DataIdle

\* write_output: the f.write calls and the close; then build_summary
RunWriteOutput(r) ==
    /\ proc[r] = "write_output"
    /\ \/ /\ Goto(r, "open_summary")
          /\ fsOutput' = Closed(fsOutput, r)
          /\ UNCHANGED fsSummary
       \/ Fail(r)
    /\ UNCHANGED reader
    /\ DataIdle

\* write_summary: mkdir and path.open("w")
RunOpenSummary(r) ==
    /\ proc[r] = "open_summary"
    /\ \/ /\ Goto(r, "write_summary")
          /\ fsSummary' = Opened(fsSummary, r)
          /\ UNCHANGED fsOutput
       \/ Fail(r)
    /\ UNCHANGED reader
    /\ DataIdle

\* write_summary: json.dump and the close; then the prints and return 0
RunWriteSummary(r) ==
    /\ proc[r] = "write_summary"
    /\ \/ /\ Goto(r, "exited")
          /\ fsSummary' = Closed(fsSummary, r)
          /\ UNCHANGED fsOutput
       \/ Fail(r)
    /\ UNCHANGED reader
    /\ DataIdle

\* run_processor: the response, by result.returncode
Respond(r) ==
    /\ proc[r] \in {"exited", "failed"}
    /\ Goto(r, IF proc[r] = "exited" THEN "http_200" ELSE "http_500")
    /\ UNCHANGED <<fsOutput, fsSummary, reader>>
    /\ DataIdle

\* get_result: os.path.exists(SUMMARY_PATH)
ResultExists ==
    /\ reader.at = "idle"
    /\ reader' = IF fsSummary.state = "absent" THEN Responded("http_404", FALSE) ELSE Reading
    /\ UNCHANGED <<proc, fsOutput, fsSummary>>
    /\ DataIdle

\* get_result: open(SUMMARY_PATH) and json.load(f)
ResultLoad ==
    /\ reader.at = "reading"
    /\ reader' = Responded(IF fsSummary.state = "complete" THEN "http_200" ELSE "http_500",
                           \E r \in Runs : proc[r] = "write_summary")
    /\ UNCHANGED <<proc, fsOutput, fsSummary>>
    /\ DataIdle

\* The next GET /api/result
ResultAgain ==
    /\ reader.at \in {"http_404", "http_200", "http_500"}
    /\ reader' = Idle
    /\ UNCHANGED <<proc, fsOutput, fsSummary>>
    /\ DataIdle

InitServer ==
    /\ pc = "server"
    /\ memberRows = <<>>
    /\ visitRows = <<>>
    /\ DataInit
    /\ ServerInit

NextServer ==
    \/ \E r \in Runs : StartRun(r)
    \/ \E r \in Runs : RunLoadMembers(r)
    \/ \E r \in Runs : RunLoadVisits(r)
    \/ \E r \in Runs : RunOpenOutput(r)
    \/ \E r \in Runs : RunWriteOutput(r)
    \/ \E r \in Runs : RunOpenSummary(r)
    \/ \E r \in Runs : RunWriteSummary(r)
    \/ \E r \in Runs : Respond(r)
    \/ ResultExists
    \/ ResultLoad
    \/ ResultAgain

SpecServer == InitServer /\ [][NextServer]_vars

----------------------------------------------------------------------------
(* Vocabulary of the properties, stated without the operators above *)

\* A raw field as text: a missing field reads as the empty string.
FieldText(raw) == IF raw = None THEN <<>> ELSE raw

\* t is s without its leading and trailing whitespace.
IsTrimOf(t, s) ==
    \E i \in 0..Len(s) :
        /\ i + Len(t) <= Len(s)
        /\ t = SubSeq(s, i + 1, i + Len(t))
        /\ \A k \in 1..i : s[k] \in Whitespace
        /\ \A k \in (i + Len(t) + 1)..Len(s) : s[k] \in Whitespace
        /\ t # <<>> => (t[1] \notin Whitespace /\ t[Len(t)] \notin Whitespace)

Trimmed(raw) ==
    LET s == FieldText(raw)
    IN  CHOOSE t \in {SubSeq(s, i, j) : i \in 1..(Len(s) + 1), j \in 0..Len(s)} : IsTrimOf(t, s)

\* A visit passes the "has barcode" and "barcode is known" checks.
Accepted(v) == v.barcode # <<>> /\ v.barcode \in DOMAIN members

AcceptedUpTo(n) == {j \in 1..n : Accepted(visits[j])}

\* The positions (group, place) of all grouped visit_ids.
GroupedPlaces ==
    UNION {{<<i, j>> : j \in 1..Len(grouped[i].ids)} : i \in 1..Len(grouped)}

\* The visit_ids of the visits carrying barcode b, in input order.
IdsWithBarcode(b) ==
    LET HasB(v) == v.barcode = b
        sel == SelectSeq(visits, HasB)
    IN  [i \in 1..Len(sel) |-> sel[i].visit_id]

AfterValidate == {"write_output", "build_summary", "write_summary", "done"}
AfterWriteOutput == {"build_summary", "write_summary", "done"}
AfterBuildSummary == {"write_summary", "done"}

----------------------------------------------------------------------------
(* C1: validate_and_group_visits returns exactly one key (members[b], b) per
   non-empty, known barcode b carried by a visit; under it the visit_ids of
   the visits with barcode b in input order, duplicates kept; no visit with
   an empty or unknown barcode is in any sequence. *)
C1_GroupedExact ==
    pc \in AfterValidate =>
        /\ DictKeys(grouped) =
              {<<members[visits[j].barcode], visits[j].barcode>> : j \in AcceptedUpTo(Len(visits))}
        /\ Cardinality(DictKeys(grouped)) = Len(grouped)
        /\ \A i \in 1..Len(grouped) : grouped[i].ids = IdsWithBarcode(grouped[i].key[2])
        /\ Cardinality(GroupedPlaces) = Cardinality(AcceptedUpTo(Len(visits)))

C1_Witness ==
    /\ pc = "write_output"
    /\ Len(visits) = 3
    /\ \E i \in 1..Len(grouped) :
          /\ Len(grouped[i].ids) = 2
          /\ grouped[i].ids[1] = grouped[i].ids[2]
    /\ \E j \in 1..Len(visits) : ~Accepted(visits[j])

(* C2: after any prefix of the visits the walk-in counter is the number of
   accepted visits of the prefix whose reservation_id is absent; rejected
   visits never count, so the counter never exceeds the grouped visits. *)
C2_WalkInsArePrefixCount ==
    pc \in {"validate"} \cup AfterValidate =>
        /\ walk_in_count =
              Cardinality({j \in AcceptedUpTo(idx) : visits[j].reservation_id = None})
        /\ walk_in_count <= Cardinality(GroupedPlaces)
        /\ Cardinality(GroupedPlaces) = Cardinality(AcceptedUpTo(idx))

C2_Witness ==
    /\ pc = "validate"
    /\ idx = 2
    /\ idx < Len(visits)
    /\ walk_in_count = 1
    /\ \E j \in 1..idx : ~Accepted(visits[j]) /\ visits[j].reservation_id = None

(* C3: the summary's total_valid_visits is the sum of the lengths of the
   grouped sequences, and that is the number of loaded visits that passed
   both barcode checks. *)
C3_TotalValidVisits ==
    pc \in AfterBuildSummary =>
        /\ summary.total_valid_visits = Cardinality(GroupedPlaces)
        /\ summary.total_valid_visits = Cardinality(AcceptedUpTo(Len(visits)))

C3_Witness ==
    /\ pc = "write_summary"
    /\ summary.total_valid_visits = 2
    /\ Len(grouped) = 1
    /\ Len(visits) = 3

(* C4: top_members is the first min(top_n, number of members) members by
   descending visit_count then ascending member_id, a member's visit_count
   being the sum over all of its barcodes; top_n = 0 gives the empty list. *)
C4_TopMembersRanked ==
    pc \in AfterBuildSummary =>
        LET ms == {k[1] : k \in DictKeys(grouped)}
            Count(m) == Cardinality({p \in GroupedPlaces : grouped[p[1]].key[1] = m})
            Before(m1, m2) ==
                \/ Count(m1) > Count(m2)
                \/ Count(m1) = Count(m2) /\ StrLess(m1, m2)
            Rank(m) == 1 + Cardinality({m2 \in ms : Before(m2, m)})
            n == IF top_n < Cardinality(ms) THEN top_n ELSE Cardinality(ms)
        IN  /\ Len(summary.top_members) = n
            /\ \A r \in 1..n :
                  /\ summary.top_members[r].member_id \in ms
                  /\ Rank(summary.top_members[r].member_id) = r
                  /\ summary.top_members[r].visit_count = Count(summary.top_members[r].member_id)

C4_Witness ==
    /\ pc = "write_summary"
    /\ Len(summary.top_members) = 2
    /\ summary.top_members[1].visit_count = summary.top_members[2].visit_count
    /\ grouped[1].key[1] = summary.top_members[2].member_id

(* C5: load_members maps each barcode to the member_id of the first row whose
   trimmed member_id and barcode are both non-empty and whose trimmed barcode
   is that barcode; later rows never replace it, rows with an empty field
   contribute nothing, and a second load of the same rows gives the same
   mapping. *)
C5_FirstSeenMember ==
    pc \in {"members_loaded", "members_reloaded"} =>
        LET Valid(i) ==
                /\ Trimmed(memberRows[i].member_id) # <<>>
                /\ Trimmed(memberRows[i].barcode) # <<>>
            RowsFor(b) ==
                {i \in 1..Len(memberRows) : Valid(i) /\ Trimmed(memberRows[i].barcode) = b}
            First(b) == CHOOSE i \in RowsFor(b) : \A j \in RowsFor(b) : i <= j
        IN  /\ DOMAIN members =
                  {Trimmed(memberRows[i].barcode) : i \in {i \in 1..Len(memberRows) : Valid(i)}}
            /\ \A b \in DOMAIN members : members[b] = Trimmed(memberRows[First(b)].member_id)

C5_Witness ==
    /\ pc = "members_reloaded"
    /\ Len(memberRows) = 3
    /\ Cardinality(DOMAIN members) = 1
    /\ \E i, j \in 1..Len(memberRows) :
          /\ i < j
          /\ memberRows[i].barcode = memberRows[j].barcode
          /\ memberRows[i].member_id # None
          /\ memberRows[i].member_id # <<>>
          /\ memberRows[j].member_id # None
          /\ memberRows[j].member_id # <<>>
          /\ Strip(memberRows[i].member_id) # Strip(memberRows[j].member_id)
          /\ memberRows[i].barcode \in DOMAIN members

(* C6: load_visits returns exactly the rows whose trimmed visit_id is
   non-empty, in input order, duplicates and empty barcodes kept; a
   reservation_id that is empty, whitespace-only or missing is absent. *)
C6_LoadedVisits ==
    pc = "visits_loaded" =>
        LET Kept == {j \in 1..Len(visitRows) : Trimmed(visitRows[j].visit_id) # <<>>}
            Place(j) == Cardinality({i \in Kept : i <= j})
            Blank(raw) == \A k \in 1..Len(FieldText(raw)) : FieldText(raw)[k] \in Whitespace
        IN  /\ Len(visits) = Cardinality(Kept)
            /\ \A k \in 1..Len(visits) : visits[k].visit_id # <<>>
            /\ \A j \in Kept :
                  /\ visits[Place(j)].visit_id = Trimmed(visitRows[j].visit_id)
                  /\ visits[Place(j)].barcode = Trimmed(visitRows[j].barcode)
                  /\ Blank(visitRows[j].reservation_id) =>
                        visits[Place(j)].reservation_id = None
                  /\ ~Blank(visitRows[j].reservation_id) =>
                        visits[Place(j)].reservation_id = Trimmed(visitRows[j].reservation_id)

C6_Witness ==
    /\ pc = "visits_loaded"
    /\ Len(visitRows) = 3
    /\ Len(visits) = 2
    /\ visitRows[1].visit_id = <<" ">>
    /\ visits[1].barcode = <<>>
    /\ visitRows[3].reservation_id = <<" ">>
    /\ visits[2].reservation_id = None

----------------------------------------------------------------------------
(* Re-parsing the tabular report: the text is cut into lines at "\n", the
   header is dropped, each row is cut at its first two commas into member_id,
   barcode and the bracketed list, and the list is cut at ", ". *)

StartsWith(s, p) == Len(p) <= Len(s) /\ SubSeq(s, 1, Len(p)) = p

\* str.split(sep): the pieces between the leftmost non-overlapping separators.
RECURSIVE SplitFrom(_, _, _)
SplitFrom(piece, s, sep) ==
    IF s = <<>> THEN <<piece>>
    ELSE IF StartsWith(s, sep)
         THEN <<piece>> \o SplitFrom(<<>>, SubSeq(s, Len(sep) + 1, Len(s)), sep)
    ELSE SplitFrom(Append(piece, s[1]), Tail(s), sep)

SplitOn(s, sep) == SplitFrom(<<>>, s, sep)

\* <<text before the first c, text after it>>
CutAtFirst(s, c) ==
    IF \E i \in 1..Len(s) : s[i] = c
    THEN LET i == CHOOSE i \in 1..Len(s) : s[i] = c /\ \A j \in 1..(i - 1) : s[j] # c
         IN  <<SubSeq(s, 1, i - 1), SubSeq(s, i + 1, Len(s))>>
    ELSE <<s, <<>>>>

ParseRow(line) ==
    LET first == CutAtFirst(line, ",")
        second == CutAtFirst(first[2], ",")
        list == second[2]
        inner == IF Len(list) >= 2 /\ list[1] = "[" /\ list[Len(list)] = "]"
                 THEN SubSeq(list, 2, Len(list) - 1)
                 ELSE list
    IN  <<<<first[1], second[1]>>, IF inner = <<>> THEN <<>> ELSE SplitOn(inner, <<",", " ">>)>>

ParseReport(text) ==
    LET lines == SplitOn(text, <<"\n">>)
    IN  {ParseRow(lines[i]) : i \in 2..(Len(lines) - 1)}

Contains(s, p) == \E i \in 0..(Len(s) - Len(p)) : SubSeq(s, i + 1, i + Len(p)) = p

\* No field can be taken for a separator of the report.
SeparatorFree ==
    \A i \in 1..Len(grouped) :
        /\ \A f \in {grouped[i].key[1], grouped[i].key[2]} :
              ~Contains(f, <<",">>) /\ ~Contains(f, <<"\n">>)
        /\ \A j \in 1..Len(grouped[i].ids) :
              ~Contains(grouped[i].ids[j], <<",", " ">>) /\ ~Contains(grouped[i].ids[j], <<"\n">>)

(* C7: write_output writes the header row, then exactly one row per GroupKey,
   the rows in ascending order of (member_id, barcode) whatever the insertion
   order of the keys, each row listing the group's visit_ids in insertion
   order. *)
C7_ReportSorted ==
    pc \in AfterWriteOutput =>
        /\ Len(outputFile) = 1 + Cardinality(DictKeys(grouped))
        /\ outputFile[1] = HeaderLine
        /\ \A i \in 1..Len(grouped) :
              LET k == grouped[i].key
                  place == 1 + Cardinality({k2 \in DictKeys(grouped) : KeyLess(k2, k)})
              IN  outputFile[1 + place] =
                      k[1] \o <<",">> \o k[2] \o <<",", "[">>
                           \o Join(<<",", " ">>, grouped[i].ids) \o <<"]", "\n">>

C7_Witness ==
    /\ pc = "build_summary"
    /\ Len(grouped) = 2
    /\ KeyLess(grouped[2].key, grouped[1].key)
    /\ Len(grouped[2].ids) = 2
    /\ grouped[2].ids[1] # grouped[2].ids[2]

(* C8 as stated: re-parsing the rendered report recovers the keys and visit_id
   lists of any GroupedVisits the pipeline produces. *)
C8_RoundTripAlways ==
    pc \in AfterWriteOutput =>
        ParseReport(Concat(outputFile)) = {<<grouped[i].key, grouped[i].ids>> : i \in 1..Len(grouped)}

(* C8 as amended: when no member_id or barcode contains a comma or a line
   break and no visit_id contains ", " or a line break, re-parsing the
   rendered report recovers the keys and, for each key, the visit_id list in
   order. *)
C8_RoundTripSeparatorFree ==
    (pc \in AfterWriteOutput /\ SeparatorFree) =>
        ParseReport(Concat(outputFile)) = {<<grouped[i].key, grouped[i].ids>> : i \in 1..Len(grouped)}

C8_Witness ==
    /\ pc = "build_summary"
    /\ SeparatorFree
    /\ Len(grouped) = 2
    /\ \E i \in 1..Len(grouped) : Len(grouped[i].ids) = 2
    /\ ParseReport(Concat(outputFile)) = {<<grouped[i].key, grouped[i].ids>> : i \in 1..Len(grouped)}

----------------------------------------------------------------------------
Writing(r) == proc[r] \in {"write_output", "write_summary"}

Failed(r) == proc[r] \in {"failed", "http_500"}

Active(r) == proc[r] \notin {"idle", "failed", "exited", "http_200", "http_500"}

(* C9: a run is atomic: once a run has failed it has overwritten neither the
   tabular report nor the summary, so when no run is in progress a report and
   a summary that are both present come from the same run. *)
C9_FailedRunWroteNothing ==
    /\ \A r \in Runs : Failed(r) => (fsOutput.writer # r /\ fsSummary.writer # r)
    /\ ((\A r \in Runs : ~Active(r)) /\ fsOutput.state # "absent" /\ fsSummary.state # "absent")
          => fsOutput.writer = fsSummary.writer

(* C10: overlapping "trigger a run" requests are serialized: no two runs
   write the report or the summary at the same time, and "fetch last
   summary" never reads the summary while a run is writing it. *)
C10_RunsSerialized ==
    /\ \A r1, r2 \in Runs : (Writing(r1) /\ Writing(r2)) => r1 = r2
    /\ ~reader.during_write

====
